---- MODULE Spec2Model ----
(***************************************************************************)
(* Botter: the extraction-library codec (Models/Library.py) and the        *)
(* capture loop of the Create window (CreateView.py); the box items of the *)
(* image viewer (ImageViewerQt.py); the frame selection of the screen      *)
(* mapper window (ScreenMapperView.py).                                    *)
(*                                                                         *)
(* Text is modelled by what the code looks at.  A line of the artifact is  *)
(* a record [head, tail]: head is line[:3] and tail is line[3:].  The tail *)
(* of a generated line of logic is its text; the tail of a metadata line   *)
(* is the source text of its payload, token by token, as str.format wrote  *)
(* it.  Python values that pass through str.format are tagged records:     *)
(*   [t |-> "str", s |-> ...]   [t |-> "none"]   [t |-> "list", l |-> ...] *)
(* Strings are taken without quote or backslash characters.                *)
(***************************************************************************)
EXTENDS Integers, Sequences, FiniteSets, TLC

VARIABLES
    \* ---- Library codec (Models/Library.py) ----
    lib,            \* the arguments of create_library
    cpc,            \* codec position: "new", "written", "loaded", "rewritten"
    created,        \* outcome of create_library: "none", "ok", "NameError"
    file,           \* the lines create_library wrote to destination + ".py"
    art,            \* the artifact handed to load_library (file, or an edit of it)
    edit,           \* which edit produced art: "none", "remove", "insert", "alter",
                    \* "kind", "malformed"
    loaded,         \* load_library(file)
    loaded2,        \* load_library(art)
    \* ---- Create window (CreateView.py) ----
    box,            \* self.box
    capture_screen, \* self.capture_screen
    fullsc_checked, \* fullsc_radb.isChecked(); boxsc_radb is the other radio button
    roi,            \* the rectangle the user last selected in box_screen_radb (r)
    pending,        \* GUI events posted by the user and not yet dispatched
    pc,             \* position of the GUI thread
    session,        \* the capture session of the running onclicked_start
    sessions,       \* number of onclicked_start calls that reached their loop
    stopped_at,     \* ticks begun when stop was first clicked during a session
    \* ---- Library objects (Models/Library.py) ----
    library,        \* the Library object built by Library.__init__, or None
    \* ---- Image viewer (ImageViewerQt.py) ----
    viewer,         \* the fields of an ImageViewerQt, and the items of its scene
    \* ---- Screen mapper window (ScreenMapperView.py) ----
    mapper          \* self.folder and the combo box screens_cb of a ScreenMapperView

codecVars == <<lib, cpc, created, file, art, edit, loaded, loaded2>>
guiVars == <<box, capture_screen, fullsc_checked, roi, pending, pc, session,
             sessions, stopped_at>>
restVars == <<library, viewer, mapper>>
vars == <<codecVars, guiVars, restVars>>

----------------------------------------------------------------------------
(* Bounds *)

MaxRules == 2
MaxTicks == 3
MaxPending == 2
MaxBoxes == 4
MaxFiles == 3

----------------------------------------------------------------------------
(* Python values and their source text *)

None == [t |-> "none"]
S(s) == [t |-> "str", s |-> s]
L(l) == [t |-> "list", l |-> l]
Absent == [t |-> "absent"]
PyInt(i) == [t |-> "int", i |-> i]
\* An evaluation that does not return.
Diverges == [t |-> "diverge"]
Error(e) == [t |-> "error", e |-> e]

\* "{}".format(v): the characters str(v) puts into the file.
Str(v) ==
    CASE v.t = "none" -> [q |-> "bare", s |-> "None"]
      [] v.t = "str"  -> [q |-> "bare", s |-> v.s]
      [] v.t = "list" -> [q |-> "list", l |-> v.l]

\* "'{}'".format(v): the same characters between single quotes.
Quote(tok) == [q |-> "quoted", s |-> tok.s]

\* What Python's parser makes of one token of source text.
EvalToken(tok) ==
    CASE tok.q = "quoted" -> S(tok.s)
      [] tok.q = "list"   -> L(tok.l)
      [] tok.q = "bare"   -> IF tok.s = "None" THEN None
                             ELSE IF tok.s = "" THEN Absent
                             ELSE Error("NameError")

----------------------------------------------------------------------------
(* Lines *)

Plain(h, r) == [head |-> h, tail |-> [k |-> "text", s |-> r]]
Blank == Plain("\n", "")

\* len(line).  A payload tail is at least " x\n".
LineLen(line) ==
    Len(line.head) + (IF line.tail.k = "text" THEN Len(line.tail.s) ELSE Len(" x\n"))

Tagged(line) == LineLen(line) >= 4 /\ line.head \in {"# c", "# f"}

----------------------------------------------------------------------------
(* Library.create_library *)

\* os.path.basename(os.path.normpath(destination)); a path is its components.
Basename(destination) == destination[Len(destination)]

Preamble ==
    << Plain("imp", "ort random\n"),
       Plain("imp", "ort numpy\n"),
       Plain("imp", "ort cv2\n"),
       Plain("imp", "ort pyocr\n"),
       Plain("imp", "ort pyocr.builders\n"),
       Plain("fro", "m PIL import Image, ImageFilter\n"),
       Plain("fro", "m mss import mss\n"),
       Blank,
       Blank >>

\* "# c {'screen_box': {}, 'directory': '{}'}\n"
ClassMeta(screen_box, directory) ==
    [head |-> "# c",
     tail |-> [k |-> "dict",
               screen_box |-> Str(screen_box),
               directory |-> Quote(Str(directory))]]

ClassBlock(name, screen_box, directory) ==
    << Plain("cla", "ss " \o name \o "(object):\n"),
       ClassMeta(screen_box, directory),
       Blank,
       Plain("   ", " def __init__(self):\n"),
       Plain("   ", "     self.img = None\n"),
       Plain("   ", "     tools = pyocr.get_available_tools()\n"),
       Plain("   ", "     if len(tools) == 0:\n"),
       Plain("   ", "         print('No OCR tool found')\n"),
       Plain("   ", "         sys.exit(1)\n"),
       Plain("   ", "     self.tool = tools[0]\n"),
       Plain("   ", "     print(\"Will use tool '%s'\" % (self.tool.get_name()))\n"),
       Blank >>

\* The capture operation: sct.grab(screen_box) when screen_box is truthy.
GrabLine(screen_box) ==
    IF screen_box.t = "list" /\ Len(screen_box.l) > 0
    THEN [head |-> "   ", tail |-> [k |-> "grab", region |-> Str(screen_box)]]
    ELSE Plain("   ", "         img = sct.shot()\n")

GrabScreen(screen_box) ==
    << Plain("   ", " def grab_screen(self):\n"),
       Plain("   ", "     with mss() as sct:\n"),
       GrabLine(screen_box),
       Plain("   ", "     self.img = Image.frombytes('RGB', img.size, img.rgb)\n"),
       Plain("   ", "     return self.img\n"),
       Blank >>

\* "# f BoxFunction('{}', '{}', {}, {})\n"
FunctionMeta(function) ==
    [head |-> "# f",
     tail |-> [k |-> "call",
               callee |-> "BoxFunction",
               args |-> << Quote(Str(S(function.name))),
                           Quote(Str(S(function.type))),
                           Str(L(function.box)),
                           Str(function.image) >>]]

\* The three lines the for loop writes for one function (lines 50-58).
FunctionHeader(function) ==
    << Plain("   ", " def " \o function.name \o "(self):\n"),
       FunctionMeta(function),
       [head |-> "cro",
        tail |-> [k |-> "crop",
                  l |-> << function.box[1], function.box[2],
                           function.box[1] + function.box[3],
                           function.box[2] + function.box[4] >>]] >>

RECURSIVE FunctionHeaders(_)
FunctionHeaders(functions) ==
    IF functions = << >> THEN << >>
    ELSE FunctionHeader(Head(functions)) \o FunctionHeaders(Tail(functions))

StringReturn ==
    Plain("   ", "     return self.tool.image_to_string(cropped, lang=\"eng\", builder=pyocr.builders.TextBuilder())\n")
NumberReturn ==
    Plain("   ", "     return float(self.tool.image_to_string(im, lang=\"eng\", builder=pyocr.builders.TextBuilder()))\n")
PositionReturn ==
    Plain("   ", "     return loc\n")

\* The if/elif chain on function.type (lines 59-77).
Body(function) ==
    CASE function.type = "string" -> << StringReturn >>
      [] function.type = "number" ->
            << Plain("   ", "     im = cropped.filter(ImageFilter.EDGE_ENHANCE_MORE)\n"),
               Plain("   ", "     npcropped = numpy.array(im)[:, :, ::-1].copy()\n"),
               Plain("   ", "     npcropped = cv2.resize(npcropped, (0,0), fx=3, fy=3)\n"),
               Plain("   ", "     im = Image.fromarray(npcropped)\n"),
               Plain("   ", "     im = im.convert('L')\n"),
               Plain("   ", "     im = im.point(lambda x: 0 if x<100 else 255, '1')\n"),
               NumberReturn >>
      [] function.type = "position" ->
            << Plain("   ", "     image = cv2.(\"" \o Str(function.image).s \o "\")\n"),
               Plain("   ", "     cropped = numpy.array(cropped)[:, :, ::-1].copy()\n"),
               Plain("   ", "     \n"),
               Plain("   ", "     res = cv2.matchTemplate(cropped, image, cv2.TM_CCOEFF_NORMED)\n"),
               Plain("   ", "     threshold = 0.8\n"),
               Plain("   ", "     loc = np.where( res >= threshold)\n"),
               PositionReturn,
               Blank >>
      [] OTHER -> << >>

\* The if chain stands after the for loop, not in it: it reads the loop
\* variable, which is the last function, and is unbound when the loop never ran.
BodyAfterLoop(functions) ==
    IF functions = << >>
    THEN [status |-> "NameError", lines |-> << >>]
    ELSE [status |-> "ok", lines |-> Body(functions[Len(functions)]) \o << Blank >>]

\* create_library: its outcome and the lines in the file when the with
\* block closes it.
CreateLibrary(destination, screen_box, directory, functions) ==
    LET name == Basename(destination)
        tail == BodyAfterLoop(functions)
    IN  [status |-> tail.status,
         lines |-> Preamble
                   \o ClassBlock(name, screen_box, directory)
                   \o GrabScreen(screen_box)
                   \o FunctionHeaders(functions)
                   \o tail.lines]

----------------------------------------------------------------------------
(* Models.BoxFunction *)

ExtractionKinds == {"string", "number", "position"}

\* BoxFunction(name, type, box, image).  The class is not among the sources;
\* its constructor follows the data model: a kind outside the closed set is
\* refused, and a template image that is not given is the empty one.
BoxFunction(args) ==
    IF Len(args) < 3 \/ Len(args) > 4 THEN Error("TypeError")
    ELSE IF args[2].t # "str" \/ args[2].s \notin ExtractionKinds THEN Error("UnknownKind")
    ELSE [t |-> "BoxFunction",
          name |-> args[1].s,
          type |-> args[2].s,
          box |-> args[3].l,
          image |-> IF Len(args) = 4 THEN args[4] ELSE S("")]

----------------------------------------------------------------------------
(* Library.load_library *)

\* The arguments of a call as Python evaluates them: an empty last argument
\* is a trailing comma, an empty argument elsewhere is a syntax error.
RECURSIVE EvalArgs(_)
EvalArgs(toks) ==
    IF toks = << >> THEN << >>
    ELSE LET v == EvalToken(Head(toks))
             rest == EvalArgs(Tail(toks))
         IN  IF v.t = "absent"
             THEN (IF Tail(toks) = << >> THEN << >> ELSE << Error("SyntaxError") >>)
             ELSE << v >> \o rest

HasError(vals) == \E k \in 1..Len(vals) : vals[k].t = "error"
FirstError(vals) == vals[CHOOSE k \in 1..Len(vals) : vals[k].t = "error"]

\* ast.literal_eval(lines[i][4:]): literals only.
literal_eval(tail) ==
    IF tail.k = "num" THEN PyInt(tail.n)
    ELSE IF tail.k = "text" THEN Error("SyntaxError")
    ELSE IF tail.k # "dict" THEN Error("ValueError")
    ELSE LET sb == EvalToken(tail.screen_box)
             dir == EvalToken(tail.directory)
         IN  IF sb.t \in {"error", "absent"} THEN Error("SyntaxError")
             ELSE IF dir.t \in {"error", "absent"} THEN Error("SyntaxError")
             ELSE [t |-> "dict", screen_box |-> sb, directory |-> dir]

\* eval(lines[i][4:]): any expression; a call runs the callee.
eval(tail) ==
    CASE tail.k \in {"dict", "num"} -> literal_eval(tail)
      [] tail.k = "loop" -> Diverges
      [] tail.k = "call" ->
            LET args == EvalArgs(tail.args)
            IN  IF HasError(args) THEN FirstError(args)
                ELSE IF tail.callee # "BoxFunction" THEN Error("NameError")
                ELSE BoxFunction(args)
      [] OTHER -> Error("SyntaxError")

Raised(e, visited) == [status |-> "error", error |-> e, visited |-> visited]

\* The call of eval at line 106 has not returned.
Hangs(visited) == [status |-> "hang", visited |-> visited]

\* The while loop of load_library from index i on (lines 93-108).  visited
\* lists the indices the loop examined, parsed those it evaluated.
RECURSIVE Scan(_, _, _, _, _, _)
Scan(lines, i, directory, functions, visited, parsed) ==
    IF ~(i < Len(lines))
    THEN [status |-> "ok", directory |-> directory, functions |-> functions,
          visited |-> visited, parsed |-> parsed]
    ELSE LET line == lines[i + 1]
             seen == Append(visited, i)
         IN  IF LineLen(line) < 4
             THEN Scan(lines, i + 1, directory, functions, seen, parsed)
             ELSE IF line.head = "# c"
             THEN LET class_data == literal_eval(line.tail)
                  IN  IF class_data.t = "error"
                      THEN Raised(class_data.e, seen)
                      ELSE IF class_data.t # "dict"
                      THEN Raised("TypeError", seen)
                      ELSE Scan(lines, i + 8 + 1, class_data.directory, functions,
                                seen, Append(parsed, i))
             ELSE IF line.head = "# f"
             THEN LET f == eval(line.tail)
                  IN  IF f.t = "error"
                      THEN Raised(f.e, seen)
                      ELSE IF f.t = "diverge"
                      THEN Hangs(seen)
                      ELSE Scan(lines, i + 2 + 1, directory, Append(functions, f),
                                seen, Append(parsed, i))
             ELSE Scan(lines, i + 1, directory, functions, seen, parsed)

\* load_library(destination) on a file holding lines: (directory, functions).
LoadLibrary(lines) == Scan(lines, 3, None, << >>, << >>, << >>)

----------------------------------------------------------------------------
(* The codec's inputs *)

Names == {"a", "b", "c"}
Destination == << "libs", "mylib" >>
Directory == S("./out")
ScreenBoxes == {None, L(<< 0, 0, 200, 100 >>)}
RuleBox == << 10, 10, 100, 40 >>

\* The template image a rule of each kind carries: a path for a template
\* match, empty otherwise.
ImageOf(type) == IF type = "position" THEN S("logo.png") ELSE S("")

Rules ==
    { [t |-> "BoxFunction", name |-> n, type |-> ty, box |-> RuleBox, image |-> ImageOf(ty)] :
        n \in Names, ty \in ExtractionKinds }

UniqueNames(functions) ==
    \A j, k \in 1..Len(functions) : j # k => functions[j].name # functions[k].name

RuleSeqs ==
    { fs \in UNION { [1..n -> Rules] : n \in 0..MaxRules } : UniqueNames(fs) }

Libraries ==
    { [destination |-> Destination, screen_box |-> sb, directory |-> Directory,
       functions |-> fs] : sb \in ScreenBoxes, fs \in RuleSeqs }

NoResult == [status |-> "none"]

----------------------------------------------------------------------------
(* Codec operations *)

RemoveAt(lines, k) == SubSeq(lines, 1, k - 1) \o SubSeq(lines, k + 1, Len(lines))
InsertAt(lines, k, line) == SubSeq(lines, 1, k - 1) \o << line >> \o SubSeq(lines, k, Len(lines))
Corrupted == Plain("   ", "     raise NotImplementedError\n")

\* As if the file were opened with mode 'a'.
WriteAppend(old, new) == old \o new

\* open(destination + ".py", 'w') and the writes: what the file held is gone.
WriteFile(old, new) == new

create_library ==
    /\ cpc = "new"
    /\ LET r == CreateLibrary(lib.destination, lib.screen_box, lib.directory, lib.functions)
       IN  /\ created' = r.status
           /\ file' = WriteFile(file, r.lines)
           /\ art' = file'
    /\ cpc' = "written"
    /\ UNCHANGED <<lib, edit, loaded, loaded2>>

\* The artifact is edited outside the program before it is loaded: one line
\* of generated logic is removed, added or altered.
EditBody ==
    /\ cpc = "written" /\ edit = "none"
    /\ \/ \E k \in 1..Len(art) :
            /\ ~Tagged(art[k])
            /\ \/ art' = RemoveAt(art, k) /\ edit' = "remove"
               \/ art' = [art EXCEPT ![k] = Corrupted] /\ edit' = "alter"
       \/ \E k \in 1..(Len(art) + 1) :
            art' = InsertAt(art, k, Corrupted) /\ edit' = "insert"
    /\ UNCHANGED <<lib, cpc, created, file, loaded, loaded2>>

\* The kind named by one function-level record is replaced by one outside
\* the closed set.
EditKind ==
    /\ cpc = "written" /\ edit = "none"
    /\ \E k \in 1..Len(art) :
            /\ Tagged(art[k]) /\ art[k].head = "# f"
            /\ art' = [art EXCEPT ![k].tail.args[2] = Quote(Str(S("colour")))]
    /\ edit' = "kind"
    /\ UNCHANGED <<lib, cpc, created, file, loaded, loaded2>>

\* What a malformed metadata line may carry after its tag: text that does
\* not parse, a literal of another shape, an expression that never returns.
Malformed ==
    { [k |-> "text", s |-> " BoxFunction('a', \n"],
      [k |-> "num", n |-> 42],
      [k |-> "loop", s |-> " sum(iter(int, 1))\n"] }

\* The payload of one metadata line is replaced by a malformed one.
EditMalformed ==
    /\ cpc = "written" /\ edit = "none"
    /\ \E k \in 1..Len(art), bad \in Malformed :
            /\ Tagged(art[k])
            /\ art' = [art EXCEPT ![k].tail = bad]
    /\ edit' = "malformed"
    /\ UNCHANGED <<lib, cpc, created, file, loaded, loaded2>>

\* create_library called once more with the same arguments, after whatever
\* was done before.
create_library_again ==
    /\ cpc \in {"written", "loaded"}
    /\ LET r == CreateLibrary(lib.destination, lib.screen_box, lib.directory, lib.functions)
       IN  /\ created' = r.status
           /\ file' = WriteFile(file, r.lines)
    /\ cpc' = "rewritten"
    /\ UNCHANGED <<lib, art, edit, loaded, loaded2>>

load_library ==
    /\ cpc = "written"
    /\ loaded' = LoadLibrary(file)
    /\ loaded2' = LoadLibrary(art)
    /\ cpc' = "loaded"
    /\ UNCHANGED <<lib, created, file, art, edit>>

----------------------------------------------------------------------------
(* CreateView *)

Full == [t |-> "full"]
Rois == {L(<< 10, 10, 100, 40 >>)}
NoImage == [frame |-> 0, area |-> None]
\* Values the frequency spin box may hold when start is clicked.
Frequencies == {1, 2}

\* speed is the local of onclicked_start; waits counts the timer waits the
\* loop has made.
NoSession ==
    [dir |-> "none", boxmode |-> FALSE, region |-> None, loop |-> "none",
     ticks |-> 0, im |-> NoImage, frames |-> << >>, speed |-> 0, waits |-> 0]

Running == pc \in {"while", "grab", "save"}

\* As if the capture loop let the event loop run between two ticks.
CanDispatchBetweenTicks == pc \in {"idle", "while"}

\* The Qt event loop hands an event to its slot only when no slot is
\* running: the slots run on the GUI thread and none of them yields.
CanDispatch == pc = "idle"

Post(e) ==
    /\ pc # "crashed"
    /\ Len(pending) < MaxPending
    /\ pending' = Append(pending, e)

ClickStart ==
    /\ Post("start")
    /\ UNCHANGED <<box, capture_screen, fullsc_checked, roi, pc, session, sessions, stopped_at>>

ClickStop ==
    /\ Post("stop")
    /\ stopped_at' = IF Running /\ stopped_at = -1 THEN session.ticks ELSE stopped_at
    /\ UNCHANGED <<box, capture_screen, fullsc_checked, roi, pc, session, sessions>>

ClickAnalyse ==
    /\ Post("analyse")
    /\ UNCHANGED <<box, capture_screen, fullsc_checked, roi, pc, session, sessions, stopped_at>>

ClickRadio ==
    /\ \E e \in {"fullsc", "boxsc"} : Post(e)
    /\ UNCHANGED <<box, capture_screen, fullsc_checked, roi, pc, session, sessions, stopped_at>>

Take(e) ==
    /\ CanDispatch
    /\ pending # << >> /\ Head(pending) = e
    /\ pending' = Tail(pending)

\* Lines 33-43: the flag is set, then the session folder is made.  makedirs
\* may raise; the exception leaves the slot, and PyQt either reports it and
\* returns to the event loop or aborts the process.
onclicked_start ==
    /\ Take("start")
    /\ capture_screen' = TRUE
    /\ \E speed \in Frequencies :
          \/ /\ session' = [NoSession EXCEPT !.dir = "ok",
                                             !.boxmode = ~fullsc_checked,
                                             !.region = roi,
                                             !.loop = IF box.t = "int" THEN "full" ELSE "box",
                                             !.speed = speed]
             /\ sessions' = sessions + 1
             /\ pc' = "while"
          \/ /\ session' = [NoSession EXCEPT !.dir = "failed",
                                             !.boxmode = ~fullsc_checked,
                                             !.region = roi,
                                             !.speed = speed]
             /\ sessions' = sessions
             /\ pc' \in {"idle", "crashed"}
    /\ UNCHANGED <<box, fullsc_checked, roi, stopped_at>>

\* Lines 44 and 48: while self.capture_screen.  The test follows the save
\* of the tick before at once: the loop holds no sleep and no timer, and
\* speed is not read again.
LoopTest ==
    /\ pc = "while"
    /\ IF capture_screen
       THEN /\ session' = [session EXCEPT !.ticks = IF @ < MaxTicks THEN @ + 1 ELSE @]
            /\ pc' = "grab"
            /\ sessions' = sessions
       ELSE /\ pc' = "idle"
            /\ sessions' = sessions - 1
            /\ session' = session
    /\ UNCHANGED <<box, capture_screen, fullsc_checked, roi, pending, stopped_at>>

\* Lines 45 and 49: ImageGrab.grab() or ImageGrab.grab(self.box).
Grab ==
    /\ pc = "grab"
    /\ session' = [session EXCEPT !.im = [frame |-> session.ticks,
                                          area |-> IF session.loop = "full" THEN Full ELSE box]]
    /\ pc' = "save"
    /\ UNCHANGED <<box, capture_screen, fullsc_checked, roi, pending, sessions, stopped_at>>

LastStamp == IF session.frames = << >> THEN 0 ELSE session.frames[Len(session.frames)].stamp

\* As if the frame were handed to a writer and the loop went on at once.
SaveDeferred ==
    /\ pc = "save"
    /\ pc' = "while"
    /\ UNCHANGED <<box, capture_screen, fullsc_checked, roi, pending, session,
                   sessions, stopped_at>>

\* Lines 46 and 50: im.save under a name made of the time of the call, to
\* the second.
Save ==
    /\ pc = "save"
    /\ \E stamp \in {LastStamp, LastStamp + 1} :
          session' = [session EXCEPT !.frames =
                         IF Len(@) < MaxTicks
                         THEN Append(@, [frame |-> session.im.frame,
                                         area |-> session.im.area,
                                         stamp |-> stamp])
                         ELSE @]
    /\ pc' = "while"
    /\ UNCHANGED <<box, capture_screen, fullsc_checked, roi, pending, sessions, stopped_at>>

onclicked_stop ==
    /\ Take("stop")
    /\ UNCHANGED <<box, capture_screen, fullsc_checked, roi, pc, session, sessions, stopped_at>>

onclicked_analyse ==
    /\ Take("analyse")
    /\ UNCHANGED <<box, capture_screen, fullsc_checked, roi, pc, session, sessions, stopped_at>>

\* Slot of fullsc_radb.toggled, run with the new state of the button.
full_screen_radb(checked) == box' = IF checked THEN PyInt(0) ELSE box

\* Slot of boxsc_radb.toggled: the user selects r; self.box is not assigned.
box_screen_radb(checked) == IF checked THEN \E r \in Rois : roi' = r ELSE roi' = roi

\* A click on the radio button that is not checked toggles both buttons,
\* and each toggled signal runs its slot; a click on the checked one does
\* nothing.
RadioClicked ==
    \E e \in {"fullsc", "boxsc"} :
        /\ Take(e)
        /\ LET full == (e = "fullsc")
           IN  IF full = fullsc_checked
               THEN UNCHANGED <<box, fullsc_checked, roi>>
               ELSE /\ fullsc_checked' = full
                    /\ full_screen_radb(full)
                    /\ box_screen_radb(~full)
        /\ UNCHANGED <<capture_screen, pc, session, sessions, stopped_at>>

----------------------------------------------------------------------------
(* ImageViewerQt *)

\* View coordinates of the mouse, zoom factors of the view, and the boxes
\* show_selected_box is called with.
Positions == {0, 1}
Zooms == {1, 2}
Buttons == {"left", "right"}
SelectedBoxes == {<< 0, 0, 1, 1 >>, << 1, 2, 3, 4 >>}

Min(a, b) == IF a < b THEN a ELSE b
Abs(a) == IF a < 0 THEN 0 - a ELSE a

\* Lines 40-78: the fields __init__ sets; the scene is empty.  made counts
\* the items constructed so far and tells one item from another.
ImageViewerQt_init ==
    [pixmapHandle |-> None, clickedX |-> 0, clickedY |-> 0, zoom |-> 1,
     current_box |-> None, selected_box |-> None, box_dimension |-> None,
     scene |-> {}, made |-> 0]

Pixmap == [t |-> "pixmap", id |-> 0]

\* QGraphicsRectItem(x, y, w, h) followed by setPen.
QGraphicsRectItem(id, rect, pen) == [t |-> "rect", id |-> id, rect |-> rect, pen |-> pen]

\* if self.current_box: an item object is true, None is false.
Truthy(v) == v # None

\* As if the earlier item were left in the scene.
keepItem(scene, item) == scene

removeItem(scene, item) == scene \ {item}

addItem(scene, item) == scene \cup {item}

\* The view is not scrolled: a view point maps to the scene by the zoom.
mapToScene(v, x, y) == << v.zoom * x, v.zoom * y >>

\* Lines 205-219.
update_function_box(v, newbox) ==
    LET cleared == IF Truthy(v.current_box) THEN removeItem(v.scene, v.current_box)
                   ELSE v.scene
        box_dimension == << newbox[1], newbox[2], newbox[3], newbox[4] >>
        current_box == QGraphicsRectItem(v.made + 1, box_dimension, "red")
    IN  [v EXCEPT !.box_dimension = L(box_dimension),
                  !.current_box = current_box,
                  !.made = v.made + 1,
                  !.scene = addItem(cleared, current_box)]

\* Lines 221-233.
show_selected_box(v, newbox) ==
    LET cleared == IF Truthy(v.selected_box) THEN removeItem(v.scene, v.selected_box)
                   ELSE v.scene
        selected_box == QGraphicsRectItem(v.made + 1, << newbox[1], newbox[2], newbox[3], newbox[4] >>,
                                          "green")
    IN  [v EXCEPT !.selected_box = selected_box,
                  !.made = v.made + 1,
                  !.scene = addItem(cleared, selected_box)]

\* Lines 108-125: the pixmap item is added once; updateViewer sets the zoom
\* from the size of the image and of the view.
setImage ==
    /\ \E z \in Zooms :
          viewer' = [viewer EXCEPT !.pixmapHandle = Pixmap,
                                   !.scene = addItem(@, Pixmap),
                                   !.zoom = z]
    /\ UNCHANGED <<codecVars, guiVars, library, mapper>>

\* Lines 85-90.
clearImage ==
    /\ viewer' = IF viewer.pixmapHandle # None
                 THEN [viewer EXCEPT !.scene = removeItem(@, viewer.pixmapHandle),
                                     !.pixmapHandle = None]
                 ELSE viewer
    /\ UNCHANGED <<codecVars, guiVars, library, mapper>>

\* Lines 160-171: a left press records where it was made.
mousePressEvent ==
    /\ \E button \in Buttons, x, y \in Positions :
          viewer' = IF button = "left"
                    THEN [viewer EXCEPT !.clickedX = x, !.clickedY = y]
                    ELSE viewer
    /\ UNCHANGED <<codecVars, guiVars, library, mapper>>

\* Lines 173-203: a left release draws the current box from the press to
\* the release; a right release may zoom to the selected area, when there
\* is an image, and updateViewer sets the zoom.
mouseReleaseEvent ==
    /\ \E button \in Buttons, x, y \in Positions :
          IF button = "left"
          THEN /\ viewer.made < MaxBoxes
               /\ LET smallX == Min(viewer.clickedX, x)
                      smallY == Min(viewer.clickedY, y)
                  IN  viewer' = update_function_box(viewer,
                                    << mapToScene(viewer, smallX, smallY)[1],
                                       mapToScene(viewer, smallX, smallY)[2],
                                       viewer.zoom * Abs(viewer.clickedX - x),
                                       viewer.zoom * Abs(viewer.clickedY - y) >>)
          ELSE \E z \in Zooms :
                  viewer' = IF viewer.pixmapHandle # None
                            THEN [viewer EXCEPT !.zoom = z]
                            ELSE viewer
    /\ UNCHANGED <<codecVars, guiVars, library, mapper>>

\* show_selected_box called by the owner of the viewer.
ShowSelectedBox ==
    /\ viewer.made < MaxBoxes
    /\ \E newbox \in SelectedBoxes : viewer' = show_selected_box(viewer, newbox)
    /\ UNCHANGED <<codecVars, guiVars, library, mapper>>

ViewerInit == viewer = ImageViewerQt_init

----------------------------------------------------------------------------
(* ScreenMapperView *)

\* Key codes of Qt: up, down, F (lines 72, 76, 80); A and right stand for
\* every other key.
Key_Up == 16777235
Key_Down == 16777237
Key_F == 70
OtherKeys == {65, 16777236}
Keys == {Key_Up, Key_Down, Key_F} \cup OtherKeys

\* The folders set_arguments is called with, and what listdir may return
\* for one: any list of distinct names, the empty one included.  The
\* handlers never compare names, so the lists are taken in increasing order.
Folders == {"./0102_10:00:00", "./0102_10:05:00"}
Listings ==
    { fs \in UNION { [1..n -> 1..MaxFiles] : n \in 0..MaxFiles } :
        \A j, k \in 1..Len(fs) : j < k => fs[j] < fs[k] }

\* Lines 17-33: no folder; the combo box holds no item, currentIndex() is
\* -1.  key is the key of the last event keyPressEvent was called with.
ScreenMapperView_init ==
    [folder |-> None, items |-> << >>, index |-> -1, key |-> None, state |-> "idle"]

count(m) == Len(m.items)

\* QComboBox.setCurrentIndex: an index that names no item clears the
\* selection.
setCurrentIndex(m, i) == IF 0 <= i /\ i < count(m) THEN i ELSE -1

\* Lines 62-65, run by currentIndexChanged: the file of the selected item
\* is loaded into the viewer when it is a file (loadImageFromFile,
\* ImageViewerQt.py:127-137); with no selection the path is the folder.
screen_changed(m, v, isfile, z) ==
    IF m.index # -1 /\ isfile
    THEN [v EXCEPT !.pixmapHandle = Pixmap, !.scene = addItem(@, Pixmap), !.zoom = z]
    ELSE v

\* The selection moves to i; the signal is sent when the index changes.
Select(m, v, i, isfile, z) ==
    LET to == [m EXCEPT !.index = setCurrentIndex(m, i)]
    IN  [m |-> to, v |-> IF to.index # m.index THEN screen_changed(to, v, isfile, z) ELSE v]

\* As if the test of line 77 let the last index through.
NotPastLast(m) == m.index < count(m)

\* Line 77: currentIndex() < count() - 1.
BeforeLast(m) == m.index < count(m) - 1

\* Line 73: currentIndex() > 0.
AfterFirst(m) == m.index > 0

\* Lines 55-60.  clear() empties the combo box (the slot then finds no
\* file to load); addItems selects the first item of a non-empty list and
\* setCurrentIndex(0) changes nothing more.  listdir may raise instead.
set_arguments ==
    /\ mapper.state = "idle"
    /\ \E folder \in Folders :
          \/ \E files \in Listings, isfile \in BOOLEAN, z \in Zooms :
                LET cleared == [mapper EXCEPT !.folder = S(folder), !.items = << >>,
                                              !.index = -1, !.key = None]
                    added == [cleared EXCEPT !.items = files]
                    r == Select(added, viewer, 0, isfile, z)
                IN  /\ mapper' = r.m
                    /\ viewer' = r.v
          \/ /\ mapper' = [mapper EXCEPT !.folder = S(folder), !.key = None]
             /\ viewer' = viewer
    /\ UNCHANGED <<codecVars, guiVars, library>>

\* Lines 68-82.  handleFullScreen calls enterFullScreen or exitFullScreen,
\* which the window does not have: the AttributeError leaves the handler,
\* and PyQt either reports it and goes on or aborts the process.
keyPressEvent ==
    /\ mapper.state = "idle"
    /\ \E key \in Keys, isfile \in BOOLEAN, z \in Zooms :
          LET m == [mapper EXCEPT !.key = PyInt(key)]
          IN  IF key = Key_Up
              THEN LET r == IF AfterFirst(m) THEN Select(m, viewer, m.index - 1, isfile, z)
                            ELSE [m |-> m, v |-> viewer]
                   IN  mapper' = r.m /\ viewer' = r.v
              ELSE IF key = Key_Down
              THEN LET r == IF BeforeLast(m) THEN Select(m, viewer, m.index + 1, isfile, z)
                            ELSE [m |-> m, v |-> viewer]
                   IN  mapper' = r.m /\ viewer' = r.v
              ELSE IF key = Key_F
              THEN /\ \E after \in {"idle", "crashed"} : mapper' = [m EXCEPT !.state = after]
                   /\ viewer' = viewer
              ELSE mapper' = m /\ viewer' = viewer
    /\ UNCHANGED <<codecVars, guiVars, library>>

MapperInit == mapper = ScreenMapperView_init

----------------------------------------------------------------------------
(* Specifications *)

GuiInit ==
    /\ box = PyInt(0)
    /\ capture_screen = FALSE
    /\ fullsc_checked = TRUE
    /\ roi = None
    /\ pending = << >>
    /\ pc = "idle"
    /\ session = NoSession
    /\ sessions = 0
    /\ stopped_at = -1

CodecStart ==
    /\ library = None
    /\ cpc = "new"
    /\ created = "none"
    /\ file = << >>
    /\ art = << >>
    /\ edit = "none"
    /\ loaded = NoResult
    /\ loaded2 = NoResult

\* The Create window; the codec is not in use.
Init ==
    /\ GuiInit
    /\ CodecStart
    /\ ViewerInit
    /\ MapperInit
    /\ lib = [destination |-> Destination, screen_box |-> None,
              directory |-> Directory, functions |-> << >>]

Next ==
    \/ (ClickStart /\ UNCHANGED <<codecVars, restVars>>)
    \/ (ClickStop /\ UNCHANGED <<codecVars, restVars>>)
    \/ (ClickAnalyse /\ UNCHANGED <<codecVars, restVars>>)
    \/ (ClickRadio /\ UNCHANGED <<codecVars, restVars>>)
    \/ (onclicked_start /\ UNCHANGED <<codecVars, restVars>>)
    \/ (onclicked_stop /\ UNCHANGED <<codecVars, restVars>>)
    \/ (onclicked_analyse /\ UNCHANGED <<codecVars, restVars>>)
    \/ (RadioClicked /\ UNCHANGED <<codecVars, restVars>>)
    \/ (LoopTest /\ UNCHANGED <<codecVars, restVars>>)
    \/ (Grab /\ UNCHANGED <<codecVars, restVars>>)
    \/ (Save /\ UNCHANGED <<codecVars, restVars>>)

Spec == Init /\ [][Next]_vars

\* The GUI thread runs whatever it can run: the loop's steps and the
\* dispatch of posted events.  The user's clicks are not forced.
Fairness ==
    /\ WF_vars(LoopTest /\ UNCHANGED <<codecVars, restVars>>)
    /\ WF_vars(Grab /\ UNCHANGED <<codecVars, restVars>>)
    /\ WF_vars(Save /\ UNCHANGED <<codecVars, restVars>>)
    /\ WF_vars(onclicked_start /\ UNCHANGED <<codecVars, restVars>>)
    /\ WF_vars(onclicked_stop /\ UNCHANGED <<codecVars, restVars>>)
    /\ WF_vars(onclicked_analyse /\ UNCHANGED <<codecVars, restVars>>)
    /\ WF_vars(RadioClicked /\ UNCHANGED <<codecVars, restVars>>)

FairSpec == Spec /\ Fairness

\* The codec on every library of the bounded set; the window is not in use.
CodecInit ==
    /\ GuiInit
    /\ CodecStart
    /\ ViewerInit
    /\ MapperInit
    /\ lib \in Libraries

CodecNext ==
    \/ (create_library /\ UNCHANGED <<guiVars, restVars>>)
    \/ (EditBody /\ UNCHANGED <<guiVars, restVars>>)
    \/ (EditKind /\ UNCHANGED <<guiVars, restVars>>)
    \/ (EditMalformed /\ UNCHANGED <<guiVars, restVars>>)
    \/ (load_library /\ UNCHANGED <<guiVars, restVars>>)
    \/ (create_library_again /\ UNCHANGED <<guiVars, restVars>>)

CodecSpec == CodecInit /\ [][CodecNext]_vars

----------------------------------------------------------------------------
(* Properties of the codec, under CodecSpec *)

Decoded == cpc = "loaded"

\* C1: load_library on the artifact create_library wrote returns the
\* library's captureRegion, outputDirectory and rules, field for field and
\* in the original order.
RoundTrip ==
    (Decoded /\ created = "ok") =>
        /\ loaded.status = "ok"
        /\ loaded.directory = lib.directory
        /\ loaded.functions = lib.functions
        /\ "screen_box" \in DOMAIN loaded
        /\ loaded.screen_box = lib.screen_box

\* The index of the k-th function-level metadata line of lines (0 if none).
RECURSIVE MetaFrom(_, _, _)
MetaFrom(lines, from, k) ==
    IF from > Len(lines) THEN 0
    ELSE IF Tagged(lines[from]) /\ lines[from].head = "# f"
         THEN (IF k = 1 THEN from ELSE MetaFrom(lines, from + 1, k - 1))
         ELSE MetaFrom(lines, from + 1, k)

MetaIndex(lines, k) == MetaFrom(lines, 1, k)

\* The lines after the k-th function-level metadata line, up to the next
\* one or the end of the artifact.
Operation(lines, k) ==
    LET first == MetaIndex(lines, k)
        next == MetaIndex(lines, k + 1)
        last == IF next = 0 THEN Len(lines) ELSE next - 1
    IN  SubSeq(lines, first + 1, last)

ReturnOf(type) ==
    CASE type = "string" -> StringReturn
      [] type = "number" -> NumberReturn
      [] type = "position" -> PositionReturn

Contains(lines, line) == \E j \in 1..Len(lines) : lines[j] = line

\* C8: for every rule, in order, the artifact holds the rule's
\* function-level metadata line, followed by an operation whose body
\* implements the rule's own kind.
EveryRuleHasBody ==
    (cpc # "new" /\ created = "ok") =>
        \A k \in 1..Len(lib.functions) :
            /\ MetaIndex(file, k) # 0
            /\ file[MetaIndex(file, k)] = FunctionMeta(lib.functions[k])
            /\ Contains(Operation(file, k), ReturnOf(lib.functions[k].type))

\* C6: two artifacts with the same metadata lines in the same order, whose
\* lines of generated logic differ, decode to the same directory and the
\* same rules (here: whenever the artifact as written decodes at all).
DecodeIgnoresBodies ==
    (Decoded /\ edit \in {"remove", "insert", "alter"} /\ loaded.status = "ok") =>
        /\ loaded2.status = "ok"
        /\ loaded2.directory = loaded.directory
        /\ loaded2.functions = loaded.functions

\* C10: decoding an artifact with a function-level record of a kind outside
\* the closed set fails with UnknownKind, and returns no rules.
UnknownKindRejected ==
    (Decoded /\ edit = "kind") =>
        /\ loaded2.status = "error"
        /\ loaded2.error = "UnknownKind"

----------------------------------------------------------------------------
(* Properties of the capture loop, under Spec and FairSpec *)

\* C2: once stop has been clicked during a session, with k ticks begun, no
\* tick k+1 begins.
StopSafety == stopped_at # -1 => session.ticks <= stopped_at

\* C3: once stop has been clicked during a session, the loop of
\* onclicked_start eventually ends and the GUI thread is idle again.
StopLiveness == (stopped_at # -1) ~> (pc = "idle")

\* C4: at most one capture session is active, whatever the clicks; a start
\* clicked during a session starts no second one.
AtMostOneSession == sessions <= 1 /\ (Running => sessions = 1)

StartClickedWhileRunning ==
    /\ Running /\ sessions = 1 /\ session.ticks >= 2
    /\ \E k \in 1..Len(pending) : pending[k] = "start"

\* C5: the ticks of a session do not overlap: frames are persisted in the
\* order of capture, and a capture begins only when every earlier frame has
\* been persisted.
TicksInOrder ==
    /\ \A k \in 1..Len(session.frames) : session.frames[k].frame = k
    /\ pc = "grab" => Len(session.frames) >= session.ticks - 1
    /\ pc = "save" => session.im.frame = session.ticks

SecondTickCaptured ==
    pc = "save" /\ session.ticks = 2 /\ Len(session.frames) = 1

\* C7: every tick of a session started in box mode captures the selected
\* region, and every tick of a session started in full-screen mode captures
\* the full screen.
CaptureFollowsMode ==
    LET wanted == IF session.boxmode THEN session.region ELSE Full
    IN  /\ \A k \in 1..Len(session.frames) : session.frames[k].area = wanted
        /\ session.im.frame # 0 => session.im.area = wanted

\* C9: when the session folder cannot be made, the running flag is not left
\* set and no tick runs.
FailedStartStaysIdle ==
    session.dir = "failed" => /\ ~capture_screen
                              /\ session.ticks = 0
                              /\ ~Running

----------------------------------------------------------------------------
(* Library.__init__ *)

\* Any sequence of rules may be given to the constructor.
AnyRuleSeqs == UNION { [1..n -> Rules] : n \in 0..MaxRules }

\* Lines 9-14: the four arguments are stored as given.
Library(destination, screen_box, directory, functions) ==
    [t |-> "Library", destination |-> destination, screen_box |-> screen_box,
     directory |-> directory, functions |-> functions]

Library_init ==
    /\ library = None
    /\ \E sb \in ScreenBoxes, fs \in AnyRuleSeqs :
          library' = Library(Destination, sb, Directory, fs)
    /\ UNCHANGED <<codecVars, guiVars, viewer, mapper>>

ModelNext == Library_init

\* The construction of Library objects; codec and window are not in use.
ModelSpec == Init /\ [][ModelNext]_vars

\* C11: no Library exists with two rules of the same name: a construction
\* with a duplicate name fails with DuplicateName.
NamesDistinct == library # None => UniqueNames(library.functions)

----------------------------------------------------------------------------
(* Further properties of the codec, under CodecSpec *)

\* C12: when a metadata line of the artifact is malformed, load_library
\* returns no result: no directory, and no rules, come back from it.
MalformedAborts ==
    (Decoded /\ edit = "malformed") => loaded2.status # "ok"

----------------------------------------------------------------------------
(* Further properties of the capture loop, under Spec *)

\* C14: between two consecutive capture ticks of a session the loop waits
\* on a timer: when tick n+1 has begun, the loop has waited n times.
TimerWaitBetweenTicks ==
    (Running /\ session.ticks >= 2) => session.waits >= session.ticks - 1

----------------------------------------------------------------------------
(* Further properties of the codec, under CodecSpec: the scan *)

InSeq(seq, x) == \E j \in 1..Len(seq) : seq[j] = x

\* The indices (from 0, as load_library counts) of the tagged lines.
TaggedIndices(lines) == {k - 1 : k \in {j \in 1..Len(lines) : Tagged(lines[j])}}

FunctionTagged(lines) ==
    {k \in TaggedIndices(lines) : lines[k + 1].head = "# f"}

\* C16: when load_library returns, no tagged line of the artifact was
\* passed over: every class-level and function-level line was parsed, and
\* there is one rule for each function-level line.
ScanComplete ==
    (Decoded /\ loaded2.status = "ok") =>
        /\ \A i \in TaggedIndices(art) : InSeq(loaded2.parsed, i)
        /\ Len(loaded2.functions) = Cardinality(FunctionTagged(art))

\* C17: create_library completes without error for every sequence of
\* rules, the empty one included, and the artifact holds the preamble, the
\* class-level metadata line and the capture operation.
CreateCompletes ==
    cpc # "new" =>
        /\ created = "ok"
        /\ SubSeq(file, 1, Len(Preamble)) = Preamble
        /\ Contains(file, ClassMeta(lib.screen_box, lib.directory))
        /\ Contains(file, GrabLine(lib.screen_box))

Occurrences(seq, x) == Cardinality({j \in 1..Len(seq) : seq[j] = x})

Increasing(seq) == \A j, k \in 1..Len(seq) : j < k => seq[j] < seq[k]

\* C18: on an artifact written by create_library for one rule or more, the
\* index of load_library lands on the class-level line and on each
\* function-level line, once each and in order.
JumpsAligned ==
    (Decoded /\ created = "ok" /\ Len(lib.functions) >= 1) =>
        /\ \A i \in TaggedIndices(file) : Occurrences(loaded.visited, i) = 1
        /\ Increasing(loaded.visited)

\* C19: load_library ends on every artifact, by returning or by raising,
\* after at most as many iterations as the artifact has lines.
LoadTerminates ==
    Decoded =>
        /\ loaded2.status \in {"ok", "error"}
        /\ Len(loaded2.visited) <= Len(art)

----------------------------------------------------------------------------
(* The box items of the viewer *)

ViewerNext ==
    \/ setImage
    \/ clearImage
    \/ mousePressEvent
    \/ mouseReleaseEvent
    \/ ShowSelectedBox

\* The viewer alone; codec and Create window are not in use.
ViewerSpec == Init /\ [][ViewerNext]_vars

BoxItems(pen) == {item \in viewer.scene : item.t = "rect" /\ item.pen = pen}

\* C20: the scene holds at most one current (red) box item and at most one
\* selected (green) one, each the item its field refers to, and
\* box_dimension is the geometry of the current box.
OneBoxPerRole ==
    /\ BoxItems("red") = IF viewer.current_box = None THEN {} ELSE {viewer.current_box}
    /\ BoxItems("green") = IF viewer.selected_box = None THEN {} ELSE {viewer.selected_box}
    /\ viewer.box_dimension = IF viewer.current_box = None THEN None
                              ELSE L(viewer.current_box.rect)

BoxesReplaced ==
    /\ viewer.current_box # None /\ viewer.current_box.id >= 3
    /\ viewer.selected_box # None /\ viewer.selected_box.id >= 3
    /\ viewer.pixmapHandle # None

----------------------------------------------------------------------------
(* The frame selection of the screen mapper *)

MapperNext ==
    \/ set_arguments
    \/ keyPressEvent

\* The screen mapper window and its viewer; codec and Create window are
\* not in use.
MapperSpec == Init /\ [][MapperNext]_vars

\* C21: once set_arguments has listed a non-empty folder, the selected
\* index is within 0..count-1 after every step; a press of up at index 0 or
\* of down at index count-1 leaves the index as it was, and so does a press
\* of any key other than up and down.
SelectionInRange ==
    [][ /\ count(mapper') > 0 => mapper'.index \in 0..(count(mapper') - 1)
        /\ (mapper'.key # None /\ count(mapper) > 0) =>
              /\ (mapper'.key = PyInt(Key_Up) /\ mapper.index = 0) =>
                     mapper'.index = mapper.index
              /\ (mapper'.key = PyInt(Key_Down) /\ mapper.index = count(mapper) - 1) =>
                     mapper'.index = mapper.index
              /\ mapper'.key \notin {PyInt(Key_Up), PyInt(Key_Down)} =>
                     mapper'.index = mapper.index ]_vars

DownPressedAtLastFrame ==
    /\ count(mapper) >= 2
    /\ mapper.key = PyInt(Key_Down)
    /\ mapper.index = count(mapper) - 1
    /\ viewer.pixmapHandle # None

====
